---------------------------- MODULE Spec2Model ----------------------------
(***************************************************************************)
(* Dataset builders of PRESTO:                                             *)
(*   scripts/name_conversion/molecule_build_name_conversion_s2f_smol.py    *)
(*       ("s2f": SMILES -> molecular formula)                              *)
(*   scripts/build_dataset/name_conversion/                                *)
(*       molecule_build_name_conversion_i2s_smol.py                        *)
(*       ("i2s": IUPAC name -> SMILES)                                     *)
(*   scripts/llava_gpt_build_multi_image_finetune_dataset.py               *)
(*       (multi-image question synthesis)                                  *)
(*                                                                         *)
(* Python str values are TLA+ strings and are handled character by         *)
(* character (Len, SubSeq and \o on strings), so str.replace and the `in`  *)
(* test are computed the way Python computes them.                         *)
(*                                                                         *)
(* A Python value that is either a str or None (a field of a dataset row)  *)
(* is a tuple: <<>> is None and <<s>> is the str s.                        *)
(***************************************************************************)
EXTENDS Integers, Sequences, FiniteSets, TLC

-----------------------------------------------------------------------------
(* Python str / list primitives                                            *)

\* s[i-1:i-1+len(sub)] == sub  (1-based i)
Occurs(s, sub, i) ==
    /\ i >= 1
    /\ i + Len(sub) - 1 <= Len(s)
    /\ SubSeq(s, i, i + Len(sub) - 1) = sub

\* `sub in s`
Contains(s, sub) == \E i \in 1..(Len(s) - Len(sub) + 1) : Occurs(s, sub, i)

\* s.find(sub, i-1) + 1 for a non-empty sub: the first occurrence at or after
\* position i, 0 if there is none
str_find(s, sub, i) ==
    LET at == {j \in i..(Len(s) - Len(sub) + 1) : Occurs(s, sub, j)} IN
    IF at = {} THEN 0 ELSE CHOOSE j \in at : \A k \in at : j <= k

\* s.replace(old, new) for a non-empty old: leftmost, non-overlapping
RECURSIVE ReplaceFrom(_, _, _, _)
ReplaceFrom(s, old, new, i) ==
    LET j == str_find(s, old, i) IN
    IF j = 0 THEN SubSeq(s, i, Len(s))
    ELSE SubSeq(s, i, j - 1) \o new \o ReplaceFrom(s, old, new, j + Len(old))

str_replace(s, old, new) == ReplaceFrom(s, old, new, 1)

\* s.count(sub) for a non-empty sub: non-overlapping occurrences
RECURSIVE CountFrom(_, _, _)
CountFrom(s, sub, i) ==
    LET j == str_find(s, sub, i) IN
    IF j = 0 THEN 0 ELSE 1 + CountFrom(s, sub, j + Len(sub))

str_count(s, sub) == CountFrom(s, sub, 1)

\* s * k
RECURSIVE str_times(_, _)
str_times(s, k) == IF k <= 0 THEN "" ELSE s \o str_times(s, k - 1)

\* sep.join(parts)
RECURSIVE str_join(_, _)
str_join(sep, parts) ==
    IF Len(parts) = 0 THEN ""
    ELSE IF Len(parts) = 1 THEN parts[1]
    ELSE parts[1] \o sep \o str_join(sep, Tail(parts))

\* str | None
None == <<>>
Str(s) == <<s>>
IsStr(v) == Len(v) = 1

\* outcome of a call: a returned value or a raised exception
Ok(v) == [ok |-> TRUE, val |-> v]
Raise(e) == [ok |-> FALSE, exc |-> e]

\* sequences over S of length at most n
SeqsUpTo(S, n) == UNION {[1..k -> S] : k \in 0..n}

-----------------------------------------------------------------------------
(* Module constants of the two molecule builders                           *)

MOLECULE_TOKEN == "<molecule_2d>"

SYSTEM_PROMPT == "You are a chemist. Please follow the instructions to convert the structure to the corresponding name."

FEW_SHOT_PROMPT == "Here are some examples of name conversion."

\* bioagent.constants
ROLE_SYSTEM == "system"
ROLE_USER == "user"
ROLE_ASSISTANT == "assistant"

PROMPT_TEMPLATES_s2f == <<
    [input  |-> "<INPUT> is the representation of a molecule. What is its molecular formula?",
     output |-> "<OUTPUT>"],
    [input  |-> "Convert the representation of a molecule <INPUT> into molecular formula.",
     output |-> "<OUTPUT>"],
    [input  |-> "What is the formula of the molecule <INPUT> ?",
     output |-> "<OUTPUT>"],
    [input  |-> "Can you give the molecular molecular formula of <INPUT> ?",
     output |-> "Sure. <OUTPUT>"],
    [input  |-> "Please write the molecular formula of the molecule <INPUT> .",
     output |-> "<OUTPUT>"],
    [input  |-> "Given the representation <INPUT>, what would be its molecular formula?",
     output |-> "It is <OUTPUT> ."],
    [input  |-> "The representation <INPUT> represents a specific molecule. Can you reveal its molecular formula?",
     output |-> "Sure. It's <OUTPUT> ."],
    [input  |-> "Considering the code <INPUT>, can you determine the corresponding molecular formula?",
     output |-> "It would be <OUTPUT> ."],
    [input  |-> "Can you tell me the molecular formula of <INPUT> ?",
     output |-> "<OUTPUT>"],
    [input  |-> "I'd like to know the molecular formula of <INPUT> . Can you tell me?",
     output |-> "Sure. It's <OUTPUT> ."],
    [input  |-> "What is the molecular formula for the molecule denoted by <INPUT> ?",
     output |-> "<OUTPUT>"],
    [input  |-> "What is the molecular formula of <INPUT> ?",
     output |-> "The molecular formula is <OUTPUT> ."],
    [input  |-> "Please provide the molecular formula for <INPUT> .",
     output |-> "<OUTPUT>"]
>>

PROMPT_TEMPLATES_i2s == <<
    [input  |-> "<INPUT> is the IUPAC name of a molecule. Please give its SMILES representation.",
     output |-> "<OUTPUT>"],
    [input  |-> "Convert the IUPAC name of a molecule <INPUT> into SMILES representation.",
     output |-> "<OUTPUT>"],
    [input  |-> "What is the SMILES representation of the molecule with IUPAC name <INPUT> ?",
     output |-> "<OUTPUT>"],
    [input  |-> "Can you give the SMILES notation of the molecule <INPUT> ?",
     output |-> "Sure. <OUTPUT>"],
    [input  |-> "Please write the SMILES representation of the molecule <INPUT> .",
     output |-> "<OUTPUT>"],
    [input  |-> "<INPUT> The above is the IUPAC name of a molecule. Write its SMILES notation.",
     output |-> "<OUTPUT>"],
    [input  |-> "The IUPAC name of a certain molecule is <INPUT> . Can you provide its SMILES representation?",
     output |-> "The SMILES representation is <OUTPUT> ."],
    [input  |-> "Please identify the SMILES representation of the molecule named <INPUT> .",
     output |-> "The molecule's SMILES representation is <OUTPUT> ."],
    [input  |-> "For the molecule with <INPUT> as the IUPAC name, what is the corresponding SMILES representation?",
     output |-> "The corresponding SMILES representation is <OUTPUT> ."],
    [input  |-> "What is the SMILES notation for <INPUT> ?",
     output |-> "It's <OUTPUT> ."],
    [input  |-> "Could you provide the SMILES for <INPUT> ?",
     output |-> "Of course. It's <OUTPUT> ."],
    [input  |-> "Can you tell me the SMILES representation for the molecule <INPUT> ?",
     output |-> "Sure. <OUTPUT> ."],
    [input  |-> "What is the SMILES representation for <INPUT> ?",
     output |-> "<OUTPUT>"]
>>

Builders == {"s2f", "i2s"}

PROMPT_TEMPLATES(b) == IF b = "s2f" THEN PROMPT_TEMPLATES_s2f ELSE PROMPT_TEMPLATES_i2s

-----------------------------------------------------------------------------
(* The random module.  The generator state is a number; random.choice      *)
(* reads it and advances it.  Every element of the sequence is chosen for  *)
(* some generator state.                                                   *)

RngPeriod == 13

random_choice(seq, r) == seq[(r % Len(seq)) + 1]

rng_next(r) == (r + 1) % RngPeriod

-----------------------------------------------------------------------------
(* The chemistry toolkit: canonicalization and SELFIES encoding, on the    *)
(* molecules the model knows.  Everything else is not a molecule.          *)

CanonicalTable ==
    [s \in {"OCC", "CCO", "C", "*C"} |->
        CASE s = "OCC" -> "CCO"
          [] s = "CCO" -> "CCO"
          [] s = "C"   -> "C"
          [] s = "*C"  -> "*C"]

\* bioagent.chemistry_tools.smiles.convert_to_canonical_smiles
convert_to_canonical_smiles(input) ==
    IF IsStr(input) /\ input[1] \in DOMAIN CanonicalTable
    THEN Ok(CanonicalTable[input[1]])
    ELSE Raise("CanonicalizationError")

SelfiesTable ==
    [s \in {"CCO", "C"} |->
        CASE s = "CCO" -> "[C][C][O]"
          [] s = "C"   -> "[C]"]

\* selfies.encoder
sf_encoder(smiles) ==
    IF smiles \in DOMAIN SelfiesTable
    THEN Ok(SelfiesTable[smiles])
    ELSE Raise("EncodingError")

-----------------------------------------------------------------------------
(* process_input, conversation_train, conversation_test                    *)

\* mutant: the format is matched before the token flag is looked at
process_input_format_over_token(input, format, token) ==
    LET smiles == convert_to_canonical_smiles(input) IN
    IF ~smiles.ok THEN smiles
    ELSE LET selfies == sf_encoder(smiles.val) IN
         IF ~selfies.ok THEN selfies
         ELSE IF format = "smiles" THEN Ok(<<selfies.val, smiles.val, smiles.val>>)
         ELSE IF format = "selfies" THEN Ok(<<selfies.val, smiles.val, selfies.val>>)
         ELSE IF token THEN Ok(<<selfies.val, smiles.val, MOLECULE_TOKEN>>)
         ELSE Raise("ValueError")

\* mutant: the format is validated first, before the input is canonicalized
process_input_validates_first(input, format, token) ==
    IF ~token /\ format \notin {"smiles", "selfies"} THEN Raise("ValueError")
    ELSE LET smiles == convert_to_canonical_smiles(input) IN
         IF ~smiles.ok THEN smiles
         ELSE LET selfies == sf_encoder(smiles.val) IN
              IF ~selfies.ok THEN selfies
              ELSE IF token THEN Ok(<<selfies.val, smiles.val, MOLECULE_TOKEN>>)
              ELSE IF format = "smiles" THEN Ok(<<selfies.val, smiles.val, smiles.val>>)
              ELSE Ok(<<selfies.val, smiles.val, selfies.val>>)

\* process_input(input, format, token): (selfies, smiles, molecule)
process_input(input, format, token) ==
    LET smiles == convert_to_canonical_smiles(input) IN
    IF ~smiles.ok THEN smiles
    ELSE LET selfies == sf_encoder(smiles.val) IN
         IF ~selfies.ok THEN selfies
         ELSE IF token THEN Ok(<<selfies.val, smiles.val, MOLECULE_TOKEN>>)
         ELSE IF format = "smiles" THEN Ok(<<selfies.val, smiles.val, smiles.val>>)
         ELSE IF format = "selfies" THEN Ok(<<selfies.val, smiles.val, selfies.val>>)
         ELSE Raise("ValueError")

\* a returned value / a raised exception, with the generator state left behind
Ret(v, r) == [ok |-> TRUE, val |-> v, rng |-> r]
Exc(e, r) == [ok |-> FALSE, exc |-> e, rng |-> r]

\* the dict conversation_train returns
TrainRecord(id, selfies, smiles, output, input_template, output_template) ==
    [id |-> id,
     molecules |-> [selfies |-> selfies, smiles |-> smiles],
     ground_truth |-> output,
     messages |-> << [role |-> ROLE_SYSTEM, content |-> SYSTEM_PROMPT],
                     [role |-> ROLE_USER, content |-> input_template],
                     [role |-> ROLE_ASSISTANT, content |-> output_template] >>]

\* mutant: the test record carries the answer as an assistant turn
TestRecord_with_answer(id, selfies, smiles, output, content) ==
    [id |-> id,
     molecules |-> [selfies |-> selfies, smiles |-> smiles],
     ground_truth |-> output,
     messages |-> << [role |-> ROLE_SYSTEM, content |-> SYSTEM_PROMPT],
                     [role |-> ROLE_USER, content |-> content],
                     [role |-> ROLE_ASSISTANT, content |-> output] >>]

\* the dict conversation_test returns
TestRecord(id, selfies, smiles, output, content) ==
    [id |-> id,
     molecules |-> [selfies |-> selfies, smiles |-> smiles],
     ground_truth |-> output,
     messages |-> << [role |-> ROLE_SYSTEM, content |-> SYSTEM_PROMPT],
                     [role |-> ROLE_USER, content |-> content] >>]

\* mutant: the output template is returned as it is, its slot not filled
conversation_train_s2f_unfilled(r, id, input, output, format, token) ==
    LET p == process_input(input, format, token) IN
    IF ~p.ok THEN Exc(p.exc, r)
    ELSE LET prompt_template == random_choice(PROMPT_TEMPLATES_s2f, r)
             input_template == str_replace(prompt_template.input, "<INPUT>", p.val[3])
         IN  IF ~IsStr(output) THEN Exc("TypeError", rng_next(r))
             ELSE Ret(TrainRecord(id, p.val[1], p.val[2], output, input_template,
                          prompt_template.output),
                      rng_next(r))

\* s2f conversation_train; r is the state of the random generator
conversation_train_s2f(r, id, input, output, format, token) ==
    LET p == process_input(input, format, token) IN
    IF ~p.ok THEN Exc(p.exc, r)
    ELSE LET prompt_template == random_choice(PROMPT_TEMPLATES_s2f, r)
             input_template == str_replace(prompt_template.input, "<INPUT>", p.val[3])
         IN  IF ~IsStr(output) THEN Exc("TypeError", rng_next(r))
             ELSE Ret(TrainRecord(id, p.val[1], p.val[2], output, input_template,
                          str_replace(prompt_template.output, "<OUTPUT>", output[1])),
                      rng_next(r))

\* i2s conversation_train: process_input is not called, format and token are not read
conversation_train_i2s(r, id, input, output, format, token) ==
    LET prompt_template == random_choice(PROMPT_TEMPLATES_i2s, r) IN
    IF ~IsStr(input) \/ ~IsStr(output) THEN Exc("TypeError", rng_next(r))
    ELSE Ret(TrainRecord(id, <<>>, <<>>, output,
                 str_replace(prompt_template.input, "<INPUT>", input[1]),
                 str_replace(prompt_template.output, "<OUTPUT>", output[1])),
             rng_next(r))

\* mutant: the lines are numbered from 0
FewShotLine_from_zero(i, example) ==
    "Few-shot example " \o ToString(i) \o ": "
        \o (IF IsStr(example.input) THEN example.input[1] ELSE "None")
        \o " -> "
        \o (IF IsStr(example.output) THEN example.output[1] ELSE "None")

\* one line of the few-shot block (i counts from 0); a None field is formatted as "None"
FewShotLine(i, example) ==
    "Few-shot example " \o ToString(i + 1) \o ": "
        \o (IF IsStr(example.input) THEN example.input[1] ELSE "None")
        \o " -> "
        \o (IF IsStr(example.output) THEN example.output[1] ELSE "None")

\* the user content of conversation_test; few_shots is None or a list of rows
TestContent(input_template, few_shots) ==
    IF few_shots = None THEN input_template
    ELSE FEW_SHOT_PROMPT \o "\n"
           \o str_join("\n", [i \in 1..Len(few_shots) |-> FewShotLine(i - 1, few_shots[i])])
           \o "\n" \o input_template

\* s2f conversation_test
conversation_test_s2f(r, id, input, output, few_shots, format, token) ==
    LET p == process_input(input, format, token) IN
    IF ~p.ok THEN Exc(p.exc, r)
    ELSE LET prompt_template == random_choice(PROMPT_TEMPLATES_s2f, r)
             input_template == str_replace(prompt_template.input, "<INPUT>", p.val[3])
         IN  Ret(TestRecord(id, p.val[1], p.val[2], output,
                     TestContent(input_template, few_shots)),
                 rng_next(r))

\* i2s conversation_test
conversation_test_i2s(r, id, input, output, few_shots, format, token) ==
    LET prompt_template == random_choice(PROMPT_TEMPLATES_i2s, r) IN
    IF ~IsStr(input) THEN Exc("TypeError", rng_next(r))
    ELSE Ret(TestRecord(id, <<>>, <<>>, output,
                 TestContent(str_replace(prompt_template.input, "<INPUT>", input[1]),
                             few_shots)),
             rng_next(r))

conversation_train(b, r, id, input, output, format, token) ==
    IF b = "s2f" THEN conversation_train_s2f(r, id, input, output, format, token)
    ELSE conversation_train_i2s(r, id, input, output, format, token)

conversation_test(b, r, id, input, output, few_shots, format, token) ==
    IF b = "s2f" THEN conversation_test_s2f(r, id, input, output, few_shots, format, token)
    ELSE conversation_test_i2s(r, id, input, output, few_shots, format, token)


\* generate_few_shot_examples(rows, num_examples): None, a raise, or the lists
\* random.sample can return (any num_examples distinct rows, in any order).
\* num_examples is a number, or None
generate_few_shot_examples(rows, num_examples) ==
    IF num_examples = None \/ num_examples = <<0>> THEN {Ok(None)}
    ELSE IF num_examples[1] > Len(rows) \/ num_examples[1] < 0 THEN {Raise("ValueError")}
    ELSE {Ok([k \in 1..num_examples[1] |-> rows[idx[k]]]) :
             idx \in {f \in [1..num_examples[1] -> 1..Len(rows)] :
                         \A a, c \in 1..num_examples[1] : a # c => f[a] # f[c]}}

-----------------------------------------------------------------------------
(* main of the molecule builders                                           *)

VARIABLES
    builder,        \* which script runs: "s2f" or "i2s"
    args,           \* the parsed command line: format, token, output_dir
    files,          \* the data directory: per split, the jsonl file or its absence
    rng,            \* state of the random generator
    pc,             \* position of main
    exc,            \* the exception that ended main, "" if none
    dataset,        \* splits loaded so far (lines 156-160)
    cur,            \* index in SplitNames of the split being loaded / generated
    i,              \* gen: index of the next row of dataset[split]
    out,            \* gen: records yielded so far for the current split
    dataset_dict,   \* the materialized splits
    stdout,         \* what print wrote, per split
    log,            \* the outward effects in order: prints, upload, save
    raised          \* history: <<split, row index>> of the rows whose try raised

molVars == <<builder, args, files, rng, pc, exc, dataset, cur, i, out,
             dataset_dict, stdout, log, raised>>

\* calls of process_input, generate_few_shot_examples and conversation_test
\* on their own
VARIABLES
    f_pc,           \* "process_input" / "few_shot" / "conversation_test": the call
                    \* to make next; "returned" / "raised" after the last one
    f_in,           \* the arguments
    f_few,          \* what generate_few_shot_examples returned
    f_ret           \* what the last call returned or raised

fnVars == <<f_pc, f_in, f_few, f_ret>>

\* main of the multi-image builder
VARIABLES
    data,           \* the pretrain dataset (line 103)
    m_args,         \* num_examples, max_images
    m_pc,           \* position of main
    m_it,           \* iterations of gen's for loop completed so far
    m_last,         \* the last iteration: what was sampled, what the service
                    \* answered, the service calls it made
    m_out,          \* records yielded so far
    m_calls,        \* history: service calls made so far
    m_skipped,      \* history: iterations that ended in the except clause
    m_exc           \* the exception that ended main, "" if none

multiVars == <<data, m_args, m_pc, m_it, m_last, m_out, m_calls, m_skipped, m_exc>>

vars == <<molVars, fnVars, multiVars>>

\* the program is not running
MolIdle ==
    /\ builder = "" /\ args = <<>> /\ files = <<>> /\ rng = 0 /\ pc = "idle"
    /\ exc = "" /\ dataset = <<>> /\ cur = 1 /\ i = 0 /\ out = <<>>
    /\ dataset_dict = <<>> /\ stdout = <<>> /\ log = <<>> /\ raised = {}

FnIdle == f_pc = "idle" /\ f_in = <<>> /\ f_few = <<>> /\ f_ret = <<>>

MultiIdle ==
    /\ data = <<>> /\ m_args = <<>> /\ m_pc = "idle" /\ m_it = 0 /\ m_last = <<>>
    /\ m_out = <<>> /\ m_calls = 0 /\ m_skipped = 0 /\ m_exc = ""

SplitNames == <<"train", "dev", "test">>

MaxRows == 2

\* rows of the s2f data files
RawRecords_s2f ==
    { [input |-> Str("OCC"),  output |-> Str("C2H6O")],
      [input |-> Str("C"),    output |-> Str("<OUTPUT>")],
      [input |-> Str("C1CC"), output |-> Str("C3H6")] }

\* rows of the i2s data files
RawRecords_i2s ==
    { [input |-> Str("ethanol"), output |-> Str("CCO")],
      [input |-> Str("<INPUT>"), output |-> Str("<OUTPUT>")],
      [input |-> None,           output |-> Str("C")] }

RawRecords(b) == IF b = "s2f" THEN RawRecords_s2f ELSE RawRecords_i2s

GoodRecord(b) ==
    IF b = "s2f" THEN [input |-> Str("OCC"), output |-> Str("C2H6O")]
    ELSE [input |-> Str("ethanol"), output |-> Str("CCO")]

\* a split file: absent, or its rows
NoFile == [exists |-> FALSE, rows |-> <<>>]
File(rows) == [exists |-> TRUE, rows |-> rows]

PlainFiles(b) == {NoFile, File(<<>>), File(<<GoodRecord(b)>>)}

Files(b) == PlainFiles(b) \cup {File(rows) : rows \in SeqsUpTo(RawRecords(b), MaxRows)}

\* the data directories considered: the three files are plain ones, or two
\* of them hold the one good row and the third, train (assembled like dev) or
\* test, is any file
DataDirs(b) ==
    [{"train", "dev", "test"} -> PlainFiles(b)]
    \cup { [t \in {"train", "dev", "test"} |->
               IF t = s THEN f ELSE File(<<GoodRecord(b)>>)] :
           s \in {"train", "test"}, f \in Files(b) }

\* argparse: --format has choices smiles/selfies, --token is any bool,
\* --output_dir defaults to None.  i2s never reads format: its runs keep the
\* default
ArgsSet(b) ==
    [format : IF b = "s2f" THEN {"smiles", "selfies"} ELSE {"smiles"},
     token : BOOLEAN,
     output_dir : {None, Str("out")}]

Init ==
    /\ builder \in Builders
    /\ args \in ArgsSet(builder)
    /\ files \in DataDirs(builder)
    /\ rng \in 0..(RngPeriod - 1)
    /\ pc = "load"
    /\ exc = ""
    /\ dataset = <<>>
    /\ cur = 1
    /\ i = 0
    /\ out = <<>>
    /\ dataset_dict = <<>>
    /\ stdout = <<>>
    /\ log = <<>>
    /\ raised = {}
    /\ FnIdle
    /\ MultiIdle

split == SplitNames[cur]

\* mutant: each split is loaded when the loop comes to it
after_load_lazy(c) == [pc |-> "gen", cur |-> c]

\* lines 156-160: the three files are loaded one after the other, and only
\* then does the loop over the splits start
after_load(c) ==
    IF c < Len(SplitNames) THEN [pc |-> "load", cur |-> c + 1]
    ELSE [pc |-> "gen", cur |-> 1]

\* lines 176-182: after a split is printed the next one is generated; the
\* upload follows the last one
after_print(c) ==
    IF c < Len(SplitNames) THEN [pc |-> "gen", cur |-> c + 1]
    ELSE [pc |-> "push", cur |-> c]

\* Dataset.from_json(data_files[split]) returns
LoadSplit ==
    /\ pc = "load"
    /\ files[split].exists
    /\ dataset' = dataset @@ (split :> files[split].rows)
    /\ pc' = after_load(cur).pc
    /\ cur' = after_load(cur).cur
    /\ UNCHANGED <<fnVars, multiVars>>
    /\ UNCHANGED <<builder, args, files, raised, rng, exc, i, out, dataset_dict, stdout, log>>

\* Dataset.from_json(data_files[split]) raises: main ends
LoadFail ==
    /\ pc = "load"
    /\ ~files[split].exists
    /\ pc' = "failed"
    /\ exc' = "FileNotFoundError"
    /\ UNCHANGED <<fnVars, multiVars>>
    /\ UNCHANGED <<builder, args, files, raised, rng, dataset, cur, i, out, dataset_dict,
                   stdout, log>>

\* the body of gen's try for row number id of rows = dataset[sp]; the few-shot
\* call is made with num_examples=0, which has the one outcome None
assemble(b, sp, r, id, rows, a) ==
    LET item == rows[id + 1] IN
    IF sp = "test"
    THEN conversation_test(b, r, id, item.input, item.output,
             (CHOOSE f \in generate_few_shot_examples(rows, <<0>>) : TRUE).val,
             a.format, a.token)
    ELSE conversation_train(b, r, id, item.input, item.output, a.format, a.token)

\* mutant: the id is the record's position among the yielded records
gen_collect_renumbered(yielded, result) ==
    IF result.ok THEN Append(yielded, [result.val EXCEPT !.id = Len(yielded)])
    ELSE yielded

\* mutant: on a raise the record of the previous row is yielded again
gen_collect_stale(yielded, result) ==
    IF result.ok THEN Append(yielded, result.val)
    ELSE IF yielded = <<>> THEN yielded
    ELSE Append(yielded, yielded[Len(yielded)])

\* what gen does with the outcome of the try: the yielded records after it
gen_collect(yielded, result) ==
    IF result.ok THEN Append(yielded, result.val) ELSE yielded

\* one iteration of gen's for loop
GenStep ==
    /\ pc = "gen"
    /\ split \in DOMAIN dataset
    /\ i < Len(dataset[split])
    /\ LET result == assemble(builder, split, rng, i, dataset[split], args) IN
        /\ out' = gen_collect(out, result)
        /\ rng' = result.rng
        /\ raised' = IF result.ok THEN raised ELSE raised \cup {<<split, i>>}
    /\ i' = i + 1
    /\ UNCHANGED <<fnVars, multiVars>>
    /\ UNCHANGED <<builder, args, files, pc, exc, dataset, cur, dataset_dict, stdout, log>>

\* gen is exhausted with no record yielded and Dataset.from_generator, given
\* no features, refuses the empty stream: main ends (line 177)
MaterializeFail ==
    /\ pc = "gen"
    /\ split \in DOMAIN dataset
    /\ i = Len(dataset[split])
    /\ out = <<>>
    /\ pc' = "failed"
    /\ exc' = "DatasetGenerationError"
    /\ UNCHANGED <<fnVars, multiVars>>
    /\ UNCHANGED <<builder, args, files, raised, rng, dataset, cur, i, out, dataset_dict,
                   stdout, log>>

\* gen is exhausted: Dataset.from_generator returns the split
Materialize ==
    /\ pc = "gen"
    /\ split \in DOMAIN dataset
    /\ i = Len(dataset[split])
    /\ dataset_dict' = dataset_dict @@ (split :> out)
    /\ pc' = "print"
    /\ UNCHANGED <<fnVars, multiVars>>
    /\ UNCHANGED <<builder, args, files, raised, rng, exc, dataset, cur, i, out, stdout, log>>

\* line 179: the split's size and first example are printed
PrintSplit ==
    /\ pc = "print"
    /\ Len(dataset_dict[split]) > 0
    /\ stdout' = Append(stdout, [split |-> split, size |-> Len(dataset_dict[split]),
                                 example |-> dataset_dict[split][1]])
    /\ log' = Append(log, "print " \o split)
    /\ pc' = after_print(cur).pc
    /\ cur' = after_print(cur).cur
    /\ i' = 0
    /\ out' = <<>>
    /\ UNCHANGED <<fnVars, multiVars>>
    /\ UNCHANGED <<builder, args, files, raised, rng, exc, dataset, dataset_dict>>

\* line 179 on a split with no record: dataset_dict[split][0] raises
PrintFail ==
    /\ pc = "print"
    /\ Len(dataset_dict[split]) = 0
    /\ pc' = "failed"
    /\ exc' = "IndexError"
    /\ UNCHANGED <<fnVars, multiVars>>
    /\ UNCHANGED <<builder, args, files, raised, rng, dataset, cur, i, out, dataset_dict,
                   stdout, log>>

\* line 182
PushToHub ==
    /\ pc = "push"
    /\ log' = Append(log, "push_to_hub")
    /\ pc' = "save"
    /\ UNCHANGED <<fnVars, multiVars>>
    /\ UNCHANGED <<builder, args, files, raised, rng, exc, dataset, cur, i, out, dataset_dict,
                   stdout>>

\* lines 183-184, args.output_dir given
SaveToDisk ==
    /\ pc = "save"
    /\ args.output_dir # None
    /\ log' = Append(log, "save_to_disk")
    /\ pc' = "done"
    /\ UNCHANGED <<fnVars, multiVars>>
    /\ UNCHANGED <<builder, args, files, raised, rng, exc, dataset, cur, i, out, dataset_dict,
                   stdout>>

\* lines 183-184, no args.output_dir
SkipSave ==
    /\ pc = "save"
    /\ args.output_dir = None
    /\ pc' = "done"
    /\ UNCHANGED <<fnVars, multiVars>>
    /\ UNCHANGED <<builder, args, files, raised, rng, exc, dataset, cur, i, out, dataset_dict,
                   stdout, log>>

Next ==
    \/ LoadSplit
    \/ LoadFail
    \/ GenStep
    \/ Materialize
    \/ MaterializeFail
    \/ PrintSplit
    \/ PrintFail
    \/ PushToHub
    \/ SaveToDisk
    \/ SkipSave

Spec == Init /\ [][Next]_vars


-----------------------------------------------------------------------------
(* Properties of the molecule builders                                     *)

\* gen is running for the current split, or has just ended
InGen == pc = "gen" \/ (pc = "failed" /\ exc = "DatasetGenerationError")

\* the records of split s emitted so far
Emitted(s) ==
    IF s \in DOMAIN dataset_dict THEN dataset_dict[s]
    ELSE IF s = split /\ InGen THEN out
    ELSE <<>>

\* the raw record a record of split s was assembled from: gen passes the
\* row's index as the record's id
Origin(s, rec) == dataset[s][rec.id + 1]

UserContent(rec) == rec.messages[2].content

Roles(rec) == [k \in 1..Len(rec.messages) |-> rec.messages[k].role]

HasPlaceholder(text) == Contains(text, "<INPUT>") \/ Contains(text, "<OUTPUT>")

\* a str|None field that holds no placeholder literal
CleanField(v) == IsStr(v) => ~HasPlaceholder(v[1])

NoPlaceholderSurvives(rec) ==
    \A k \in 1..Len(rec.messages) : ~HasPlaceholder(rec.messages[k].content)

\* C1 as claimed: in both builders, for every raw record, template and split,
\* no message content of an emitted record contains "<INPUT>" or "<OUTPUT>".
C1_Original ==
    \A k \in 1..Len(out) : NoPlaceholderSurvives(out[k])

\* C1 as amended: in both builders, for every raw record whose input and
\* output texts contain neither "<INPUT>" nor "<OUTPUT>", every template and
\* every split, no message content of the emitted record contains "<INPUT>"
\* or "<OUTPUT>".
C1_Amended ==
    \A k \in 1..Len(out) :
        (CleanField(Origin(split, out[k]).input) /\ CleanField(Origin(split, out[k]).output))
            => NoPlaceholderSurvives(out[k])

C1_Witness ==
    /\ builder = "i2s"
    /\ split = "train"
    /\ Len(out) = 2
    /\ Origin(split, out[2]) = GoodRecord("i2s")
    /\ out[2].messages[2].content = "Could you provide the SMILES for ethanol ?"
    /\ out[2].messages[3].content = "Of course. It's CCO ."

\* C2 as claimed: whenever token=True, in each builder, the user message of
\* every emitted record contains "<molecule_2d>" and contains neither the
\* record's raw input text nor its canonical SMILES nor its SELFIES string.
C2_Original ==
    args.token =>
        \A k \in 1..Len(out) :
            LET raw == Origin(split, out[k]).input[1]
                p == process_input(Origin(split, out[k]).input, args.format, args.token)
            IN  /\ Contains(UserContent(out[k]), MOLECULE_TOKEN)
                /\ ~Contains(UserContent(out[k]), raw)
                /\ p.ok => /\ ~Contains(UserContent(out[k]), p.val[1])
                           /\ ~Contains(UserContent(out[k]), p.val[2])

\* C2 as amended: in the SMILES->formula builder, whenever token=True, for every
\* record, format and split, the user message is one of the templates with its
\* input slot filled by "<molecule_2d>" and by nothing taken from the record
\* (so the raw input, canonical SMILES and SELFIES occur in it only where the
\* template's own wording spells them); the name->SMILES builder does not read
\* the flag: its user message is the template with the raw input name in the
\* slot.
C2_Amended ==
    \A k \in 1..Len(out) :
        LET slot == IF builder = "i2s" THEN Origin(split, out[k]).input[1]
                    ELSE MOLECULE_TOKEN
        IN  (builder = "i2s" \/ args.token) =>
               /\ \E t \in 1..Len(PROMPT_TEMPLATES(builder)) :
                      /\ Len(UserContent(out[k])) =
                            Len(PROMPT_TEMPLATES(builder)[t].input) - Len("<INPUT>") + Len(slot)
                      /\ UserContent(out[k]) =
                            str_replace(PROMPT_TEMPLATES(builder)[t].input, "<INPUT>", slot)
               /\ Contains(UserContent(out[k]), slot)

C2_Witness ==
    /\ builder = "s2f"
    /\ args.token
    /\ args.format = "selfies"
    /\ split = "test"
    /\ Len(out) = 1
    /\ Origin(split, out[1]).input = Str("OCC")
    /\ UserContent(out[1]) = "What is the formula of the molecule <molecule_2d> ?"

\* C3: records of train and dev have messages [system, user, assistant],
\* records of test have [system, user]; in every split ground_truth is the
\* output field of the raw record the record was assembled from.
C3_RolesAndGroundTruth ==
    \A s \in DOMAIN dataset :
        \A k \in 1..Len(Emitted(s)) :
            /\ Roles(Emitted(s)[k]) =
                  IF s = "test" THEN <<"system", "user">>
                  ELSE <<"system", "user", "assistant">>
            /\ Emitted(s)[k].ground_truth = Origin(s, Emitted(s)[k]).output

C3_Witness ==
    /\ pc = "push"
    /\ Len(dataset_dict["train"]) = 2
    /\ Len(dataset_dict["test"]) = 1
    /\ Roles(dataset_dict["test"][1]) = <<"system", "user">>
    /\ Roles(dataset_dict["train"][2]) = <<"system", "user", "assistant">>

\* the indices below n of the rows of split s whose try did not raise, ascending
RECURSIVE SuccessesBelow(_, _)
SuccessesBelow(s, n) ==
    IF n = 0 THEN <<>>
    ELSE IF <<s, n - 1>> \notin raised THEN Append(SuccessesBelow(s, n - 1), n - 1)
    ELSE SuccessesBelow(s, n - 1)

\* rows of split s gen has gone through
Consumed(s) ==
    IF s \in DOMAIN dataset_dict THEN Len(dataset[s])
    ELSE IF s = split /\ InGen THEN i
    ELSE 0

\* C4: a raise while assembling row i drops row i only and gen goes on with
\* row i+1: at every point the emitted stream is the sub-sequence of the rows
\* gone through whose assembly succeeded, in input order, each once, and gen
\* goes through every row of the split.
C4_SkipAndContinue ==
    \A s \in DOMAIN dataset :
        LET ok == SuccessesBelow(s, Consumed(s)) IN
        /\ \A r \in raised : r[1] = s => r[2] < Consumed(s)
        /\ Len(Emitted(s)) = Len(ok)
        /\ \A k \in 1..Len(ok) :
              /\ Emitted(s)[k].id = ok[k]
              /\ Emitted(s)[k].ground_truth = dataset[s][ok[k] + 1].output

C4_Witness ==
    /\ pc = "gen"
    /\ split = "train"
    /\ Len(dataset["train"]) = 2
    /\ i = 2
    /\ raised = {<<"train", 0>>}
    /\ Len(out) = 1
    /\ out[1].id = 1

\* the indices of the rows of split s whose assembly raised
Dropped(s) == {r[2] : r \in {q \in raised : q[1] = s}}

\* the ids of the records of split s emitted so far
EmittedIds(s) == {Emitted(s)[k].id : k \in 1..Len(Emitted(s))}

\* C11: every emitted record's id is the zero-based index of its raw record in
\* the input split, not its position among the yielded records: the ids are
\* strictly increasing along the output (so pairwise distinct), no emitted
\* record carries the id of a row whose assembly raised, the ids missing among
\* the rows gone through are exactly the dropped indices, and a split of n rows
\* with a dropped row has at most n-1 records.
C11_IdsAreInputIndices ==
    \A s \in DOMAIN dataset :
        /\ \A k \in 1..Len(Emitted(s)) :
              /\ Emitted(s)[k].id \in 0..(Len(dataset[s]) - 1)
              /\ Emitted(s)[k].id >= k - 1
              /\ Emitted(s)[k].ground_truth = dataset[s][Emitted(s)[k].id + 1].output
        /\ \A k \in 1..(Len(Emitted(s)) - 1) : Emitted(s)[k].id < Emitted(s)[k + 1].id
        /\ EmittedIds(s) \cap Dropped(s) = {}
        /\ (0..(Consumed(s) - 1)) \ EmittedIds(s) = Dropped(s)
        /\ Dropped(s) # {} => Len(Emitted(s)) <= Len(dataset[s]) - 1
        /\ Len(Emitted(s)) = Consumed(s) - Cardinality(Dropped(s))

\* the test split of two rows is materialized with its first row dropped: the
\* one record is first in the output and carries id 1
C11_Witness ==
    /\ pc = "print"
    /\ split = "test"
    /\ Len(dataset["test"]) = 2
    /\ Dropped("test") = {0}
    /\ Len(dataset_dict["test"]) = 1
    /\ dataset_dict["test"][1].id = 1
    /\ dataset_dict["test"][1].ground_truth = dataset["test"][2].output

\* C9: the three split files are loaded before gen runs for any split: in a run
\* where one of the files is missing, no record of any split is generated and
\* nothing is printed, uploaded or saved.
C9_MissingFileAbortsFirst ==
    /\ pc \notin {"load", "failed"} => DOMAIN dataset = {"train", "dev", "test"}
    /\ (\E s \in DOMAIN files : ~files[s].exists) =>
          /\ pc \in {"load", "failed"}
          /\ i = 0
          /\ out = <<>>
          /\ dataset_dict = <<>>
          /\ stdout = <<>>
          /\ log = <<>>

C9_Witness ==
    /\ pc = "failed"
    /\ exc = "FileNotFoundError"
    /\ files["train"].exists
    /\ files["dev"].exists
    /\ ~files["test"].exists
    /\ DOMAIN dataset = {"train", "dev"}
    /\ dataset_dict = <<>>
    /\ log = <<>>

\* the effects of a complete run, in order
FullLog == <<"print train", "print dev", "print test", "push_to_hub", "save_to_disk">>

IsPrefix(a, c) == Len(a) <= Len(c) /\ a = SubSeq(c, 1, Len(a))

\* the order of main's effects: splits are materialized in the order train, dev,
\* test, each is printed (size and first example) before the next one starts,
\* the upload follows the three prints and the save follows the upload
C10_Order ==
    /\ IsPrefix(log, FullLog)
    /\ Len(stdout) = (IF Len(log) < 3 THEN Len(log) ELSE 3)
    /\ \A k \in 1..Len(stdout) :
          /\ stdout[k].split = SplitNames[k]
          /\ SplitNames[k] \in DOMAIN dataset_dict
          /\ stdout[k].size = Len(dataset_dict[SplitNames[k]])
          /\ stdout[k].example = dataset_dict[SplitNames[k]][1]
    /\ pc = "gen" => /\ Len(log) = cur - 1
                     /\ DOMAIN dataset_dict = {SplitNames[k] : k \in 1..(cur - 1)}
    /\ pc = "print" => /\ Len(log) = cur - 1
                       /\ DOMAIN dataset_dict = {SplitNames[k] : k \in 1..cur}
    /\ "save_to_disk" \in {log[k] : k \in 1..Len(log)} => args.output_dir # None
    /\ pc = "done" => Len(log) = (IF args.output_dir # None THEN 5 ELSE 4)

AllLoaded == DOMAIN dataset = {"train", "dev", "test"}

\* C10: once the three files have loaded the run always reaches normal
\* completion, whatever per-record failures occur, also when every record of a
\* split is dropped (no exception ends it); the effects come in the order of
\* C10_Order.
C10_AlwaysCompletes ==
    /\ C10_Order
    /\ AllLoaded => pc # "failed"


-----------------------------------------------------------------------------
(* process_input, generate_few_shot_examples and conversation_test called  *)
(* on their own                                                            *)

MaxPool == 2

MaxShots == 2

\* the candidate rows of a few-shot pool
FewShotRows ==
    { [input |-> Str("methane"), output |-> Str("C")],
      [input |-> Str("water"),   output |-> Str("O")] }

\* calls process_input(input, format, token)
ProcessInputCalls ==
    [input : {Str("OCC"), Str("CCO"), Str("C"), Str("*C"), Str("C1CC"), None},
     format : {"smiles", "selfies", "SMILES", "inchi", ""},
     token : BOOLEAN]

\* calls conversation_test(0, item.input, item.output,
\*           generate_few_shot_examples(rows, num_examples), format, token)
\* for the good row of a builder, with the random generator in state r
FewShotCalls ==
    [builder : Builders,
     rows : SeqsUpTo(FewShotRows, MaxPool),
     num_examples : {None} \cup {<<n>> : n \in 0..MaxShots},
     format : {"smiles"},
     token : BOOLEAN,
     r : 0..(RngPeriod - 1)]

InitFn ==
    /\ \/ f_pc = "process_input" /\ f_in \in ProcessInputCalls
       \/ f_pc = "few_shot" /\ f_in \in FewShotCalls
    /\ f_few = <<>>
    /\ f_ret = <<>>
    /\ MolIdle
    /\ MultiIdle

CallProcessInput ==
    /\ f_pc = "process_input"
    /\ f_ret' = process_input(f_in.input, f_in.format, f_in.token)
    /\ f_pc' = IF f_ret'.ok THEN "returned" ELSE "raised"
    /\ UNCHANGED <<f_in, f_few>>
    /\ UNCHANGED <<molVars, multiVars>>

\* generate_few_shot_examples returns None or a sample
FewShotReturns ==
    /\ f_pc = "few_shot"
    /\ \E o \in generate_few_shot_examples(f_in.rows, f_in.num_examples) :
          /\ o.ok
          /\ f_few' = o.val
    /\ f_pc' = "conversation_test"
    /\ UNCHANGED <<f_in, f_ret>>
    /\ UNCHANGED <<molVars, multiVars>>

\* generate_few_shot_examples raises: conversation_test is not called
FewShotRaises ==
    /\ f_pc = "few_shot"
    /\ \E o \in generate_few_shot_examples(f_in.rows, f_in.num_examples) :
          /\ ~o.ok
          /\ f_ret' = o
    /\ f_pc' = "raised"
    /\ UNCHANGED <<f_in, f_few>>
    /\ UNCHANGED <<molVars, multiVars>>

CallConversationTest ==
    /\ f_pc = "conversation_test"
    /\ f_ret' = conversation_test(f_in.builder, f_in.r, 0,
                    GoodRecord(f_in.builder).input, GoodRecord(f_in.builder).output,
                    f_few, f_in.format, f_in.token)
    /\ f_pc' = IF f_ret'.ok THEN "returned" ELSE "raised"
    /\ UNCHANGED <<f_in, f_few>>
    /\ UNCHANGED <<molVars, multiVars>>

NextFn ==
    \/ CallProcessInput
    \/ FewShotReturns
    \/ FewShotRaises
    \/ CallConversationTest

SpecFn == InitFn /\ [][NextFn]_vars

BareContent ==
    str_replace(random_choice(PROMPT_TEMPLATES(f_in.builder), f_in.r).input, "<INPUT>",
        IF f_in.builder = "i2s" THEN GoodRecord("i2s").input[1]
        ELSE IF f_in.token THEN "<molecule_2d>"
        ELSE "CCO")

CountIsZero == f_in.num_examples = None \/ f_in.num_examples = <<0>>

\* the few-shot block of n lines for the rows pool[idx[1]], ..., pool[idx[n]]
RECURSIVE BlockOf(_, _, _)
BlockOf(pool, idx, n) ==
    IF n = 0 THEN ""
    ELSE BlockOf(pool, idx, n - 1)
           \o "Few-shot example " \o ToString(n) \o ": " \o pool[idx[n]].input[1]
           \o " -> " \o pool[idx[n]].output[1] \o "\n"

\* the user content is the preamble, n numbered lines for n distinct rows of the
\* pool, then the real prompt
RendersDistinctRows(content, pool, n) ==
    \E idx \in [1..n -> 1..Len(pool)] :
        /\ \A a, c \in 1..n : a # c => idx[a] # idx[c]
        /\ content = "Here are some examples of name conversion.\n"
                       \o BlockOf(pool, idx, n) \o BareContent

\* the second half of C6: a positive count n and a pool of at least n rows
C6_PositiveCount ==
    (~CountIsZero /\ f_in.num_examples[1] <= Len(f_in.rows)) =>
        /\ f_pc # "raised"
        /\ f_pc = "conversation_test" => Len(f_few) = f_in.num_examples[1]
        /\ f_pc = "returned" =>
              RendersDistinctRows(f_ret.val.messages[2].content, f_in.rows,
                                  f_in.num_examples[1])

\* a call that ended produced the record with the bare content
EmitsBare ==
    /\ f_pc # "raised"
    /\ f_pc = "conversation_test" => f_few = None
    /\ f_pc = "returned" =>
          /\ f_ret.val.messages[2].content = BareContent
          /\ Roles(f_ret.val) = <<"system", "user">>
          /\ ~Contains(f_ret.val.messages[2].content, "Here are some examples of name conversion.")
          /\ ~Contains(f_ret.val.messages[2].content, "Few-shot example")

\* C6 as claimed: with a count of 0 or None, or with an empty pool, the test
\* record is produced and its user message is the bare rendered template; with
\* a positive count n and a pool of at least n rows, n distinct pool rows are
\* rendered, numbered 1..n, between the preamble and the real prompt.
C6_Original ==
    "rows" \in DOMAIN f_in =>
        /\ (CountIsZero \/ f_in.rows = <<>>) => EmitsBare
        /\ C6_PositiveCount

\* C6 as amended: with a count of 0 or None, whatever the pool (an empty one
\* included), the test record is produced and its user message is the bare
\* rendered template, with no preamble and no few-shot line added; with a
\* positive count and an empty pool generate_few_shot_examples raises ValueError
\* and no record is produced; with a positive count n and a pool of at least n
\* rows, n distinct pool rows are rendered, numbered 1..n, between the preamble
\* and the real prompt.
C6_Amended ==
    "rows" \in DOMAIN f_in =>
        /\ CountIsZero => EmitsBare
        /\ (~CountIsZero /\ f_in.rows = <<>> /\ f_pc # "few_shot") =>
              /\ f_pc = "raised"
              /\ f_ret = Raise("ValueError")
              /\ f_few = <<>>
        /\ C6_PositiveCount

C6_Witness ==
    /\ "rows" \in DOMAIN f_in
    /\ f_pc = "returned"
    /\ f_in.builder = "i2s"
    /\ f_in.num_examples = <<2>>
    /\ Len(f_in.rows) = 2
    /\ f_ret.val.messages[2].content =
          "Here are some examples of name conversion.\nFew-shot example 1: water -> O\nFew-shot example 2: methane -> C\nWhat is the SMILES notation for ethanol ?"


-----------------------------------------------------------------------------
(* scripts/llava_gpt_build_multi_image_finetune_dataset.py                 *)

IMAGE_TOKEN == "<image>"

\* rows of the pretrain dataset: one image, and its caption as the content of
\* the second message
PretrainRow(path, caption) ==
    [images |-> <<path>>,
     messages |-> << [role |-> "user", content |-> "<image>"],
                     [role |-> "assistant", content |-> caption] >>]

PretrainData ==
    << PretrainRow("0.jpg", "a dog on a beach"),
       PretrainRow("1.jpg", "a red bicycle") >>

MaxNumExamples == 2

\* --num_examples and --max_images are any int
MultiArgsSet == [num_examples : 0..MaxNumExamples, max_images : 0..(Len(PretrainData) + 1)]

\* what the chat-completion call and the parse of its tool-call arguments can
\* come to: the client cannot be built, the call raises, the message carries no
\* tool call, the arguments are not JSON, or they are a JSON object
ServiceOutcomes ==
    [status : {"no_client", "api_error", "no_tool_call", "invalid_json"},
     payload : {<<>>}]
    \cup [status : {"json"},
          payload : { [question |-> "How are the images related?", answer |-> "Both are outdoors."],
                      [question |-> "Is <image> the first one?", answer |-> "Yes."],
                      [question |-> "Which one is older?"],
                      [answer |-> "The second one."] }]

\* mutant: a call that raises is made a second time
calls_made_retry(resp) ==
    IF resp.status = "no_client" THEN 0
    ELSE IF resp.status = "api_error" THEN 2
    ELSE 1

\* service calls _build_convo makes under this outcome
calls_made(resp) == IF resp.status = "no_client" THEN 0 ELSE 1

\* mutant: the token is put once, not once per image
build_convo_one_token(pretrain_examples, resp, front) ==
    LET paths == [k \in 1..Len(pretrain_examples) |-> pretrain_examples[k].images[1]] IN
    IF resp.status # "json" THEN Raise("Exception")
    ELSE IF ~({"question", "answer"} \subseteq DOMAIN resp.payload) THEN Raise("KeyError")
    ELSE LET q == IF front THEN "<image>" \o " " \o resp.payload.question
                  ELSE resp.payload.question \o " " \o "<image>"
         IN  Ok([images |-> paths,
                 messages |-> << [role |-> ROLE_USER, content |-> q],
                                 [role |-> ROLE_ASSISTANT, content |-> resp.payload.answer] >>])

\* _build_convo(pretrain_examples) under a service outcome; front is
\* random.choice([True, False])
build_convo(pretrain_examples, resp, front) ==
    LET captions == [k \in 1..Len(pretrain_examples) |->
                        pretrain_examples[k].messages[2].content]
        paths == [k \in 1..Len(pretrain_examples) |-> pretrain_examples[k].images[1]]
    IN  IF resp.status = "no_client" THEN Raise("OpenAIError")
        ELSE IF resp.status = "api_error" THEN Raise("APIError")
        ELSE IF resp.status = "no_tool_call" THEN Raise("TypeError")
        ELSE IF resp.status = "invalid_json" THEN Raise("JSONDecodeError")
        ELSE IF "question" \notin DOMAIN resp.payload THEN Raise("KeyError")
        ELSE IF "answer" \notin DOMAIN resp.payload THEN Raise("KeyError")
        ELSE LET q == IF front
                      THEN str_times("<image>", Len(captions)) \o " " \o resp.payload.question
                      ELSE resp.payload.question \o " " \o str_times("<image>", Len(captions))
             IN  Ok([images |-> paths,
                     messages |-> << [role |-> ROLE_USER, content |-> q],
                                     [role |-> ROLE_ASSISTANT, content |-> resp.payload.answer] >>])

\* random.sample(idxs, k): any k distinct indices (0-based), in any order
random_sample(n, k) ==
    {f \in [1..k -> 0..(n - 1)] : \A a, c \in 1..k : a # c => f[a] # f[c]}

InitMulti ==
    /\ data = PretrainData
    /\ m_args \in MultiArgsSet
    /\ m_pc = "gen"
    /\ m_it = 0
    /\ m_last = <<>>
    /\ m_out = <<>>
    /\ m_calls = 0
    /\ m_skipped = 0
    /\ m_exc = ""
    /\ MolIdle
    /\ FnIdle

\* the try of one iteration of gen, for the sampled indices: yield or skip
iteration(selected_idxs, resp, front) ==
    LET selected_examples == [k \in 1..Len(selected_idxs) |-> data[selected_idxs[k] + 1]]
    IN  build_convo(selected_examples, resp, front)

\* the records yielded after an iteration
multi_collect(yielded, result) ==
    IF result.ok THEN Append(yielded, result.val) ELSE yielded

\* one iteration of gen (lines 108-116) whose sampling succeeds
IterTry ==
    /\ m_pc = "gen"
    /\ m_it < m_args.num_examples
    /\ \E k \in 1..m_args.max_images :
          /\ k <= Len(data)
          /\ \E selected_idxs \in random_sample(Len(data), k), resp \in ServiceOutcomes,
                front \in BOOLEAN :
                LET result == iteration(selected_idxs, resp, front) IN
                /\ m_out' = multi_collect(m_out, result)
                /\ m_skipped' = IF result.ok THEN m_skipped ELSE m_skipped + 1
                /\ m_calls' = m_calls + calls_made(resp)
                /\ m_last' = [selected_idxs |-> selected_idxs, resp |-> resp,
                              yielded |-> result.ok, calls |-> calls_made(resp)]
    /\ m_it' = m_it + 1
    /\ UNCHANGED <<data, m_args, m_pc, m_exc>>
    /\ UNCHANGED <<molVars, fnVars>>

\* one iteration of gen whose sampling raises: random.randint(1, max_images)
\* with max_images < 1, or random.sample(idxs, k) with k > len(idxs); both are
\* outside the try, so gen and main end
IterSampleRaises ==
    /\ m_pc = "gen"
    /\ m_it < m_args.num_examples
    /\ \/ m_args.max_images < 1
       \/ \E k \in 1..m_args.max_images : k > Len(data)
    /\ m_pc' = "failed"
    /\ m_exc' = "ValueError"
    /\ UNCHANGED <<data, m_args, m_it, m_last, m_out, m_calls, m_skipped>>
    /\ UNCHANGED <<molVars, fnVars>>

\* gen is exhausted: Dataset.from_generator returns and the dataset is saved
\* (lines 118-119)
MultiSave ==
    /\ m_pc = "gen"
    /\ m_it = m_args.num_examples
    /\ m_pc' = "done"
    /\ UNCHANGED <<data, m_args, m_it, m_last, m_out, m_calls, m_skipped, m_exc>>
    /\ UNCHANGED <<molVars, fnVars>>

\* gen is exhausted with no record yielded and Dataset.from_generator, given
\* no features, refuses the empty stream: main ends (line 118)
MultiSaveFails ==
    /\ m_pc = "gen"
    /\ m_it = m_args.num_examples
    /\ m_out = <<>>
    /\ m_pc' = "failed"
    /\ m_exc' = "DatasetGenerationError"
    /\ UNCHANGED <<data, m_args, m_it, m_last, m_out, m_calls, m_skipped>>
    /\ UNCHANGED <<molVars, fnVars>>

NextMulti ==
    \/ IterTry
    \/ IterSampleRaises
    \/ MultiSave
    \/ MultiSaveFails

SpecMulti == InitMulti /\ [][NextMulti]_vars


\* the last iteration yielded a record: the group it sampled and the record
Yielded == m_last # <<>> /\ m_last.yielded

LastRecord == m_out[Len(m_out)]

SampledK == Len(m_last.selected_idxs)

\* the images list has one path per sampled example, in sampling order
ImagesInSamplingOrder ==
    /\ Len(LastRecord.images) = SampledK
    /\ \A n \in 1..SampledK :
          LastRecord.images[n] = data[m_last.selected_idxs[n] + 1].images[1]

UserText == LastRecord.messages[1].content

\* k contiguous copies of the token at the very start or the very end of the text
TokensAtEdge ==
    LET run == str_times(IMAGE_TOKEN, SampledK) IN
    /\ Len(UserText) >= Len(run)
    /\ \/ SubSeq(UserText, 1, Len(run)) = run
       \/ SubSeq(UserText, Len(UserText) - Len(run) + 1, Len(UserText)) = run

AnswerUnchanged ==
    /\ LastRecord.messages[2].role = "assistant"
    /\ LastRecord.messages[2].content = m_last.resp.payload.answer

\* C7 as stated: for every question the service returns the user message
\* contains exactly k copies of the token
C7_Original ==
    Yielded =>
        /\ ImagesInSamplingOrder
        /\ str_count(UserText, IMAGE_TOKEN) = SampledK
        /\ TokensAtEdge
        /\ AnswerUnchanged

\* C7 (amended): the record built for a group of k sampled examples has an
\* images list of length k whose n-th path is the image of the n-th sampled
\* example, its assistant message is the returned answer unchanged, and its user
\* message is the returned question with k contiguous copies of "<image>" and
\* one space put before it or after it; the message contains exactly k copies
\* of the token when the returned question contains none, and k plus the
\* question's own copies otherwise.
C7_Amended ==
    Yielded =>
        LET question == m_last.resp.payload.question
            run == str_times(IMAGE_TOKEN, SampledK)
        IN  /\ SampledK \in 1..m_args.max_images
            /\ ImagesInSamplingOrder
            /\ UserText \in {run \o " " \o question, question \o " " \o run}
            /\ TokensAtEdge
            /\ str_count(UserText, IMAGE_TOKEN)
                   = SampledK + str_count(question, IMAGE_TOKEN)
            /\ (str_count(question, IMAGE_TOKEN) = 0
                   => str_count(UserText, IMAGE_TOKEN) = SampledK)
            /\ AnswerUnchanged

\* a record for two examples sampled in the order (1, 0), tokens at the end
C7_Witness ==
    /\ Yielded
    /\ m_last.selected_idxs = <<1, 0>>
    /\ LastRecord.images = <<"1.jpg", "0.jpg">>
    /\ UserText = "How are the images related? <image><image>"

\* the iterations that have been run, the calls they made and the records
\* they left agree
MultiCounts ==
    /\ m_calls <= m_it
    /\ m_last # <<>> => m_last.calls <= 1
    /\ m_skipped <= m_it
    /\ Len(m_out) = m_it - m_skipped

\* gen has ended: exhausted, or by an exception
GenEnded == m_pc \in {"done", "failed"}

\* C8 as stated: each iteration makes at most one call and leaves a record or
\* none, and the generator always ends after exactly num_examples iterations
C8_Original ==
    /\ MultiCounts
    /\ GenEnded => /\ m_it = m_args.num_examples
                   /\ Len(m_out) = m_args.num_examples - m_skipped

\* the sampling of an iteration cannot raise
SamplingFits == 1 <= m_args.max_images /\ m_args.max_images <= Len(data)

MultiStepsLeft ==
    (m_args.num_examples - m_it) + (IF m_pc = "gen" THEN 1 ELSE 0)

\* a step of the try of one iteration
TryStep ==
    /\ m_it' = m_it + 1
    /\ m_pc' = "gen"
    /\ m_calls' - m_calls = m_last'.calls
    /\ m_last'.calls \in {0, 1}
    /\ m_last'.resp.status = "no_client" <=> m_last'.calls = 0
    /\ \/ /\ m_last'.yielded
          /\ m_last'.resp.status = "json"
          /\ {"question", "answer"} \subseteq DOMAIN m_last'.resp.payload
          /\ Len(m_out') = Len(m_out) + 1
          /\ SubSeq(m_out', 1, Len(m_out)) = m_out
          /\ m_skipped' = m_skipped
       \/ /\ ~m_last'.yielded
          /\ \/ m_last'.resp.status # "json"
             \/ ~({"question", "answer"} \subseteq DOMAIN m_last'.resp.payload)
          /\ m_out' = m_out
          /\ m_skipped' = m_skipped + 1

\* C8 (amended): provided 0 <= num_examples and 1 <= max_images <= the number
\* of pretrain rows, each iteration makes at most one service call and is never
\* retried; an iteration whose call fails or returns a malformed payload leaves
\* no record and the loop goes on; the generator ends after exactly
\* num_examples iterations and the number of emitted records is num_examples
\* minus the number of failed iterations.  Otherwise (max_images < 1, or a
\* drawn k above the number of rows) the sampling raises ValueError outside
\* the try, and the generator and main end there with nothing saved.
C8_Amended ==
    /\ [](MultiCounts)
    /\ [][m_pc = "gen" /\ m_pc' = "gen" => TryStep]_vars
    /\ [][MultiStepsLeft' < MultiStepsLeft]_vars
    /\ [](SamplingFits => m_exc # "ValueError")
    /\ [](m_pc = "gen" => ENABLED NextMulti)
    /\ [](GenEnded /\ m_exc # "ValueError" =>
             /\ m_it = m_args.num_examples
             /\ Len(m_out) = m_args.num_examples - m_skipped)
    /\ [](m_exc = "ValueError" => /\ m_pc = "failed"
                                  /\ ~SamplingFits
                                  /\ m_it < m_args.num_examples)

\* a run of two iterations, one skipped and one yielding, saved
C8_Witness ==
    /\ m_pc = "done"
    /\ m_args.num_examples = 2
    /\ m_skipped = 1
    /\ Len(m_out) = 1
    /\ m_calls = 2


=============================================================================
